---- MODULE Spec2Model ----
(***************************************************************************)
(* StockETL (ETL/stock_etl.py): one run of run_etl against the partitioned *)
(* StockData store and the two MongoDB collections (StockDataArtifacts,    *)
(* the per-ticker watermark records, and ETLArtifacts, the run log).       *)
(*                                                                         *)
(* A row is <<ticker, date_time>>; the price columns take no part in any   *)
(* decision of the pipeline.  date_time is a day number, and the year and  *)
(* month columns (lines 85-86) are merged into one month number.           *)
(***************************************************************************)
EXTENDS Integers, FiniteSets, Sequences, TLC

\* ---------------------------------------------------------------- bounds
MaxDate == 4
DaysPerMonth == 2
MaxRows == 2
MaxRuns == 3

Tickers == {"AAPL", "MSFT"}
Dates == 1..MaxDate
Rows == Tickers \X Dates

\* A missing date (Python None / an absent document field).
NoDate == 0

\* year(col("date")), month(col("date")): lines 85-86.
Month(d) == ((d - 1) \div DaysPerMonth) + 1
Months == {Month(d) : d \in Dates}

\* The folders a run can be pointed at: non-empty sets of at most MaxRows
\* rows, or an empty folder.
Inputs == {s \in SUBSET Rows : Cardinality(s) <= MaxRows}

VARIABLES
    \* persistent stores
    store,            \* StockData: row -> number of stored copies
    wm,               \* StockDataArtifacts: ticker -> watermark record
    etl_artifacts,    \* ETLArtifacts: sequence of run documents
    \* the StockETL object of the current run
    pc, err, run_id, input, ym, mode, skip_writing, tickers_new,
    api_artifacts, stock_data,
    \* locals of validate_file_to_write
    mongo_ticker_dict, unique_tickers, tickers_missing, tickers_update,
    tickers_current,
    \* history: the stores when the run started; the write of this run was
    \* done; this run repeats the previous one, which returned its report
    \* (and had skipped the write); no run has failed so far; the tickers
    \* the previous run wrote before its upsert failed, when this run
    \* repeats it
    wm0, store0, etl0, wrote, rerun, prev_skip, clean, retry_written

vars == <<store, wm, etl_artifacts, pc, err, run_id, input, ym, mode,
          skip_writing, tickers_new, api_artifacts, stock_data,
          mongo_ticker_dict, unique_tickers, tickers_missing, tickers_update,
          tickers_current, wm0, store0, etl0, wrote, rerun, prev_skip, clean,
          retry_written>>

stores == <<store, wm, etl_artifacts>>
locals == <<mongo_ticker_dict, unique_tickers, tickers_missing, tickers_update, tickers_current>>
object == <<run_id, input, ym, mode, skip_writing, tickers_new>>
history == <<wm0, store0, etl0, rerun, prev_skip, clean, retry_written>>

\* ------------------------------------------------------------- helpers
TickersOf(rows) == {r[1] : r \in rows}
DatesOf(rows, t) == {r[2] : r \in {q \in rows : q[1] = t}}
MaxOf(S) == CHOOSE x \in S : \A y \in S : y <= x
MinOf(S) == CHOOSE x \in S : \A y \in S : x <= y

RECURSIVE SumCopies(_, _, _)
SumCopies(df, t, d) ==
    IF d = 0 THEN 0 ELSE df[<<t, d>>] + SumCopies(df, t, d - 1)

\* the rows a stored dataframe holds, copies dropped
RowsIn(df) == {r \in Rows : df[r] > 0}

EmptyStore == [r \in Rows |-> 0]

\* A report entry api_artifacts[key] = value.
Put(rep, key, val) == [k \in DOMAIN rep \cup {key} |-> IF k = key THEN val ELSE rep[k]]
EmptyReport == [k \in {} |-> ""]

\* ---------------------------------------------- collaborators (db, utils)
\* StockDataArtifacts.export_ticker_data_from_mongo: {ticker: latest_date}
export_ticker_data_from_mongo == [t \in DOMAIN wm |-> wm[t].latest_date]

\* StockLoader.get_data: the stored rows of the given months
get_data(months) == [r \in Rows |-> IF Month(r[2]) \in months THEN store[r] ELSE 0]

\* ETLArtifacts.create_first_etl_art_doc: the run document of the first run
FirstEtlDoc(tickers) ==
    [run_id |-> run_id, tickers_missing |-> {}, tickers_new |-> tickers,
     tickers_updated |-> {}, skip_writing |-> FALSE]

\* ... and one watermark stub per distinct ticker, its counts and dates
\* filled in by the aggregation step
WatermarkStub == [row_count |-> 0, oldest_date |-> NoDate, latest_date |-> NoDate]
FirstWatermarks(tickers) ==
    [t \in DOMAIN wm \cup tickers |-> IF t \in DOMAIN wm THEN wm[t] ELSE WatermarkStub]

\* ETLArtifacts.update_etl_artifacts
EtlDoc(missing, new, updated, skip) ==
    [run_id |-> run_id, tickers_missing |-> missing, tickers_new |-> new,
     tickers_updated |-> updated, skip_writing |-> skip]

\* ------------------------------------------------------------------ Init
Init ==
    /\ store = EmptyStore
    /\ wm = [t \in {} |-> WatermarkStub]
    /\ etl_artifacts = <<>>
    /\ pc = "idle"
    /\ err = "none"
    /\ run_id = 0
    /\ input = {}
    /\ ym = 1
    /\ mode = "append"
    /\ skip_writing = FALSE
    /\ tickers_new = {}
    /\ api_artifacts = EmptyReport
    /\ stock_data = {}
    /\ mongo_ticker_dict = [t \in {} |-> NoDate]
    /\ unique_tickers = {}
    /\ tickers_missing = {}
    /\ tickers_update = {}
    /\ tickers_current = {}
    /\ wm0 = wm
    /\ store0 = store
    /\ etl0 = etl_artifacts
    /\ retry_written = {}
    /\ wrote = FALSE
    /\ rerun = FALSE
    /\ prev_skip = FALSE
    /\ clean = TRUE

\* ---------------------------------------------------- StockETL.__init__
\* A run is one StockETL object: the folder's rows and the year/month
\* extract_date_from_path reads from the folder name are its inputs.
\* line 15
InitialModeOverwrite == "overwrite"
InitialMode == "append"

Construct(inp, m) ==
    /\ pc \in {"idle", "done", "failed"}
    /\ run_id < MaxRuns
    /\ rerun' = (pc = "done" /\ inp = input /\ m = ym)
    /\ prev_skip' = skip_writing
    /\ clean' = (clean /\ pc # "failed")
    /\ input' = inp
    /\ ym' = m
    /\ mode' = InitialMode
    /\ run_id' = run_id + 1
    /\ skip_writing' = FALSE
    /\ tickers_new' = {}
    /\ api_artifacts' = EmptyReport
    /\ stock_data' = {}
    /\ mongo_ticker_dict' = [t \in {} |-> NoDate]
    /\ wm0' = wm
    /\ store0' = store
    /\ etl0' = etl_artifacts
    /\ retry_written' =
         IF clean /\ pc = "failed" /\ err = "StoreWrite" /\ wrote /\ inp = input /\ m = ym
         THEN TickersOf(stock_data) ELSE {}
    /\ unique_tickers' = {}
    /\ tickers_missing' = {}
    /\ tickers_update' = {}
    /\ tickers_current' = {}
    /\ wrote' = FALSE
    /\ pc' = "constructed"
    /\ err' = "none"
    /\ UNCHANGED stores

\* ------------------------------------------- read_prepare_input_files
ReadPrepareNoCheck ==
    /\ pc = "constructed"
    /\ pc' = "loaded"
    /\ api_artifacts' = Put(api_artifacts, "LoadingData", "Successful")
    /\ stock_data' = input
    /\ UNCHANGED <<err, stores, object, locals, history, wrote>>
ReadPrepare ==
    /\ pc = "constructed"
    /\ IF input = {}
       THEN /\ pc' = "failed"
            /\ err' = "EmptyInput"
            /\ UNCHANGED <<api_artifacts, stock_data>>
       ELSE /\ pc' = "loaded"
            /\ api_artifacts' = Put(api_artifacts, "LoadingData", "Successful")
            /\ stock_data' = input
            /\ UNCHANGED err
    /\ UNCHANGED <<stores, object, locals, history, wrote>>

\* --------------------------------------------- validate_file_to_write
\* line 148: a ticker is current when the input's newest row is not newer
\* than the stored latest_date
IsCurrentStrict(input_latest, stored_latest) == input_latest < stored_latest
IsCurrent(input_latest, stored_latest) == input_latest <= stored_latest

\* line 126-130: { ticker: max(date_time) } over the input
LatestDates(df) == [t \in TickersOf(df) |-> MaxOf(DatesOf(df, t))]

\* lines 137, 140, 144-151: the four sets of the incremental path
NewTickersAll(tickers_df, tickers_mongo) == tickers_df
NewTickers(tickers_df, tickers_mongo) == tickers_df \ tickers_mongo
MissingTickers(tickers_df, tickers_mongo) == tickers_mongo \ tickers_df
CurrentTickers(latest, mongo) ==
    {t \in DOMAIN latest \cap DOMAIN mongo : IsCurrent(latest[t], mongo[t])}
UpdateTickers(latest, mongo) ==
    {t \in DOMAIN latest \cap DOMAIN mongo : ~IsCurrent(latest[t], mongo[t])}

\* line 154: stock_data.filter(~col("ticker").isin(tickers_current))
FilterKeepCurrent(df, current) == {r \in df : r[1] \in current}
FilterCurrent(df, current) == {r \in df : r[1] \notin current}

\* line 156: nothing to write
NothingToWriteNoNew(update, new) == update = {}
NothingToWrite(update, new) == update = {} /\ new = {}

\* line 164: the classification handed to update_etl_artifacts
ClassificationRequestSwapped(missing, new, updated, skip) == EtlDoc(new, missing, updated, skip)
ClassificationRequest(missing, new, updated, skip) == EtlDoc(missing, new, updated, skip)

\* line 109 raises: the watermark snapshot cannot be read
ValidateReadErrorAfterRequest ==
    /\ pc = "loaded"
    /\ pc' = "failed"
    /\ err' = "StoreRead"
    /\ etl_artifacts' = Append(etl_artifacts, EtlDoc({}, {}, {}, FALSE))
    /\ UNCHANGED <<store, wm, object, locals, history, wrote, api_artifacts, stock_data>>
ValidateReadError ==
    /\ pc = "loaded"
    /\ pc' = "failed"
    /\ err' = "StoreRead"
    /\ UNCHANGED <<stores, object, locals, history, wrote, api_artifacts, stock_data>>

\* line 117: the first run overwrites
FirstRunModeUnchanged == "append"
FirstRunMode == "overwrite"

\* lines 110-123: no ticker document yet
ValidateFirstRun ==
    /\ pc = "loaded"
    /\ DOMAIN export_ticker_data_from_mongo = {}
    /\ unique_tickers' = TickersOf(stock_data)
    /\ etl_artifacts' = Append(etl_artifacts, FirstEtlDoc(unique_tickers'))
    /\ wm' = FirstWatermarks(unique_tickers')
    /\ mode' = FirstRunMode
    /\ api_artifacts' = Put(Put(api_artifacts, "ETLArtifacts", "First artifacts created successfully"),
                            "run_id", "run_id")
    /\ mongo_ticker_dict' = export_ticker_data_from_mongo
    /\ pc' = "classified"
    /\ UNCHANGED <<store, err, run_id, input, ym, skip_writing, tickers_new, stock_data,
                   tickers_missing, tickers_update, tickers_current, history, wrote>>

\* lines 125-151 when a ticker of the input has a document without a
\* latest_date: the comparison of line 148 raises TypeError, after
\* tickers_new (line 137) was assigned
ValidateCompareError ==
    /\ pc = "loaded"
    /\ LET mongo == export_ticker_data_from_mongo
           latest == LatestDates(stock_data)
       IN /\ DOMAIN mongo # {}
          /\ \E t \in DOMAIN latest \cap DOMAIN mongo : mongo[t] = NoDate
          /\ mongo_ticker_dict' = mongo
          /\ tickers_new' = NewTickers(DOMAIN latest, DOMAIN mongo)
          /\ tickers_missing' = MissingTickers(DOMAIN latest, DOMAIN mongo)
    /\ pc' = "failed"
    /\ err' = "TypeError"
    /\ UNCHANGED <<stores, run_id, input, ym, mode, skip_writing, api_artifacts, stock_data,
                   unique_tickers, tickers_update, tickers_current, history, wrote>>

\* lines 125-168
ValidateIncremental ==
    /\ pc = "loaded"
    /\ LET mongo == export_ticker_data_from_mongo
           latest == LatestDates(stock_data)
       IN /\ DOMAIN mongo # {}
          /\ \A t \in DOMAIN latest \cap DOMAIN mongo : mongo[t] # NoDate
          /\ mongo_ticker_dict' = mongo
          /\ tickers_new' = NewTickers(DOMAIN latest, DOMAIN mongo)
          /\ tickers_missing' = MissingTickers(DOMAIN latest, DOMAIN mongo)
          /\ tickers_current' = CurrentTickers(latest, mongo)
          /\ tickers_update' = UpdateTickers(latest, mongo)
    /\ stock_data' = FilterCurrent(stock_data, tickers_current')
    /\ skip_writing' = NothingToWrite(tickers_update', tickers_new')
    /\ api_artifacts' =
         Put(Put(Put(api_artifacts, "WritingMode",
                     IF skip_writing' THEN "Data already up-to date. Write skipped" ELSE mode),
                 "ETLArtifacts", "ETL Artifacts added successfully"),
             "run_id", "run_id")
    /\ etl_artifacts' = Append(etl_artifacts,
                               ClassificationRequest(tickers_missing', tickers_new',
                                                     tickers_update', skip_writing'))
    /\ pc' = "classified"
    /\ UNCHANGED <<store, wm, err, run_id, input, ym, mode, unique_tickers, history, wrote>>

validate_file_to_write ==
    \/ ValidateReadError
    \/ ValidateFirstRun
    \/ ValidateCompareError
    \/ ValidateIncremental

\* --------------------------------------- write_partitioned_stock_data
\* lines 174-175: .mode(self.mode).parquet("StockData")
WriteResultReplace(old, df, m) == [r \in Rows |-> IF r \in df THEN 1 ELSE 0]
WriteResult(old, df, m) ==
    [r \in Rows |-> (IF m = "overwrite" THEN 0 ELSE old[r]) + (IF r \in df THEN 1 ELSE 0)]

WriteOk ==
    /\ pc = "classified"
    /\ ~skip_writing
    /\ store' = WriteResult(store, stock_data, mode)
    /\ api_artifacts' = Put(api_artifacts, "WritingData", "Successful")
    /\ wrote' = TRUE
    /\ pc' = "written"
    /\ UNCHANGED <<wm, etl_artifacts, err, object, stock_data, locals, history>>

\* lines 177-178
WriteError ==
    /\ pc = "classified"
    /\ ~skip_writing
    /\ pc' = "failed"
    /\ err' = "Write"
    /\ UNCHANGED <<stores, object, api_artifacts, stock_data, locals, history, wrote>>

write_partitioned_stock_data == WriteOk \/ WriteError

\* ----------------------------------- create_save_stock_data_artifacts
\* lines 210-214 and 223-227: groupBy("ticker").agg(count, min, max); on
\* the incremental path the oldest_date is computed for new tickers only
AggregateAllOldest(df, first, new) ==
    [t \in TickersOf(RowsIn(df)) |->
        [row_count |-> SumCopies(df, t, MaxDate),
         oldest_date |-> MinOf(DatesOf(RowsIn(df), t)),
         latest_date |-> MaxOf(DatesOf(RowsIn(df), t))]]
Aggregate(df, first, new) ==
    [t \in TickersOf(RowsIn(df)) |->
        [row_count |-> SumCopies(df, t, MaxDate),
         oldest_date |-> IF first \/ t \in new THEN MinOf(DatesOf(RowsIn(df), t)) ELSE NoDate,
         latest_date |-> MaxOf(DatesOf(RowsIn(df), t))]]

\* StockDataArtifacts.add_first_stock_artifacts: one document per ticker
add_first_stock_artifacts(old, agg) ==
    [t \in DOMAIN old \cup DOMAIN agg |-> IF t \in DOMAIN agg THEN agg[t] ELSE old[t]]

\* StockDataArtifacts.update_stock_artifacts: create if absent, else add
\* the count, take the latest_date and keep the stored oldest_date unless
\* one was computed
MergeRecord(rec, a) ==
    [row_count |-> rec.row_count + a.row_count,
     oldest_date |-> IF a.oldest_date = NoDate THEN rec.oldest_date ELSE a.oldest_date,
     latest_date |-> a.latest_date]
update_stock_artifacts(old, agg) ==
    [t \in DOMAIN old \cup DOMAIN agg |->
        IF t \notin DOMAIN agg THEN old[t]
        ELSE IF t \notin DOMAIN old THEN agg[t]
        ELSE MergeRecord(old[t], agg[t])]

\* lines 206-207 and 220: the scope of the aggregation
AggregationScopeMonth(m) == {ym}
AggregationScope(m) == IF m = "overwrite" THEN Months ELSE {ym}

\* line 242: the write is skipped, or has been done
ReadyToSave == pc = "written" \/ (pc = "classified" /\ skip_writing)

CreateSaveOk ==
    /\ ReadyToSave
    /\ LET agg == Aggregate(get_data(AggregationScope(mode)), mode = "overwrite", tickers_new)
       IN wm' = IF mode = "overwrite"
                THEN add_first_stock_artifacts(wm, agg)
                ELSE update_stock_artifacts(wm, agg)
    /\ api_artifacts' = Put(api_artifacts, "StockDataArtifacts",
                            IF mode = "overwrite" THEN "First artifacts created successfully"
                            ELSE "Artifacts updated successfully")
    /\ pc' = "done"
    /\ UNCHANGED <<store, etl_artifacts, err, object, stock_data, locals, history, wrote>>

\* lines 215, 228 raise: the upsert of the watermark documents fails
CreateSaveError ==
    /\ ReadyToSave
    /\ pc' = "failed"
    /\ err' = "StoreWrite"
    /\ UNCHANGED <<stores, object, api_artifacts, stock_data, locals, history, wrote>>

create_save_stock_data_artifacts == CreateSaveOk \/ CreateSaveError

\* ---------------------------------------------------------------- run_etl
Next ==
    \/ \E inp \in Inputs, m \in Months : Construct(inp, m)
    \/ ReadPrepare
    \/ validate_file_to_write
    \/ write_partitioned_stock_data
    \/ create_save_stock_data_artifacts

Spec == Init /\ [][Next]_vars

\* =================================================================
\* Properties
\* =================================================================
\* validate_file_to_write has returned in the current run
Classified ==
    \/ pc \in {"classified", "written", "done"}
    \/ pc = "failed" /\ err \in {"Write", "StoreWrite"}
\* ... on the path of lines 110-123 / of lines 125-168
FirstPath == Classified /\ DOMAIN mongo_ticker_dict = {}
IncrementalPath == Classified /\ DOMAIN mongo_ticker_dict # {}
\* the set of new tickers a classification hands on: line 115 / line 164
ClassifiedNew == IF DOMAIN mongo_ticker_dict = {} THEN unique_tickers ELSE tickers_new
InputLatest(t) == MaxOf(DatesOf(input, t))

\* C1: on the incremental path a ticker of the input with a watermark
\* record is current exactly when its newest input date_time is at most the
\* stored latest_date, and updated otherwise; equal dates make it current.
C1_CurrentIffNotNewer ==
    IncrementalPath =>
        \A t \in TickersOf(input) \cap DOMAIN mongo_ticker_dict :
            /\ t \in tickers_current <=> InputLatest(t) <= mongo_ticker_dict[t]
            /\ t \in tickers_update <=> InputLatest(t) > mongo_ticker_dict[t]
            /\ InputLatest(t) = mongo_ticker_dict[t] =>
                   t \in tickers_current /\ t \notin tickers_update

C1_Witness ==
    /\ IncrementalPath
    /\ \E t \in tickers_current : InputLatest(t) = mongo_ticker_dict[t]
    /\ \E t \in tickers_update : InputLatest(t) > mongo_ticker_dict[t]

\* C2: the sets new, updated, missing and current are pairwise disjoint,
\* every input ticker is in exactly one of new, updated and current, new
\* holds only input tickers without a record and missing only recorded
\* tickers absent from the input.
C2_Partition ==
    Classified =>
        LET new == ClassifiedNew
            snap == DOMAIN mongo_ticker_dict
            inp == TickersOf(input)
        IN /\ new \cap tickers_update = {}
           /\ new \cap tickers_missing = {}
           /\ new \cap tickers_current = {}
           /\ tickers_update \cap tickers_missing = {}
           /\ tickers_update \cap tickers_current = {}
           /\ tickers_missing \cap tickers_current = {}
           /\ new \cup tickers_update \cup tickers_current = inp
           /\ new \subseteq inp \ snap
           /\ tickers_missing \subseteq snap \ inp

C2_Witness ==
    /\ IncrementalPath
    /\ tickers_new # {}
    /\ tickers_update # {}

\* C3: with no watermark record, classification of a non-empty input hands
\* on all distinct input tickers as new, sets the mode to overwrite and
\* returns the input with no row removed.
C3_Bootstrap ==
    FirstPath =>
        /\ input # {}
        /\ unique_tickers = TickersOf(input)
        /\ mode = "overwrite"
        /\ stock_data = input
        /\ ~skip_writing

C3_Witness ==
    /\ FirstPath
    /\ pc = "classified"
    /\ Cardinality(unique_tickers) = 2

\* C4: a watermark record differs from its value at the start of the run
\* only once the partitioned write of that run has succeeded or been
\* skipped; a run whose write failed has created and changed none.
C4_WatermarkOnlyAfterWrite ==
    /\ wm # wm0 => wrote \/ skip_writing
    /\ pc = "failed" /\ err = "Write" => wm = wm0

\* C5: the run after a run that returned its report, with the same folder,
\* finds every input ticker current, skips the write and stores nothing
\* (stated for the histories in which no run has failed, and for the
\* repetition of a run that wrote).
C5_RerunIsNoOp ==
    clean /\ rerun /\ ~prev_skip /\ Classified =>
        /\ TickersOf(input) \subseteq tickers_current
        /\ skip_writing
        /\ ~wrote

\* C6: repeating a run that found every input ticker current skips the
\* write again and leaves every watermark record as it was, the
\* aggregation and upsert step included (stated for the histories in
\* which no run has failed).
C6_NoOpRerunKeepsWatermarks ==
    clean /\ rerun /\ prev_skip =>
        /\ Classified => skip_writing
        /\ wm = wm0

\* C7: no run lowers the stored latest_date of a ticker, that of a ticker
\* it classified updated included (stated for the histories in which no
\* run has failed).
C7_LatestNeverLowered ==
    clean => \A t \in DOMAIN wm0 : wm[t].latest_date >= wm0[t].latest_date

C9_SkipIffNothingToWrite ==
    /\ Classified =>
          (skip_writing <=> DOMAIN mongo_ticker_dict # {}
                            /\ tickers_new = {} /\ tickers_update = {})
    /\ ~Classified => ~skip_writing
    /\ wrote => ~skip_writing
    /\ pc = "written" => wrote
    /\ pc = "done" => (wrote <=> ~skip_writing)
    /\ pc = "failed" /\ err = "Write" => ~skip_writing
    /\ pc = "failed" /\ skip_writing => err = "StoreWrite"

C9_Witness ==
    /\ pc = "done"
    /\ skip_writing
    /\ ~wrote
    /\ "StockDataArtifacts" \in DOMAIN api_artifacts

\* C10: a run writes (or tries to) in overwrite mode only when its
\* classification found no watermark record; a run that found some writes
\* in append mode.
C10_OverwriteOnlyAtBootstrap ==
    /\ Classified => (mode = "overwrite" <=> DOMAIN mongo_ticker_dict = {})
    /\ wrote /\ DOMAIN mongo_ticker_dict # {} => mode = "append"
    /\ wrote /\ mode = "overwrite" => wm0 = [t \in {} |-> WatermarkStub]

C10_Witness ==
    /\ wrote
    /\ mode = "append"
    /\ DOMAIN mongo_ticker_dict # {}
    /\ run_id > 1

\* C11: on the incremental path the returned dataset holds exactly the
\* input rows of the tickers that are not current: every row of a new or
\* updated ticker, no row of a current one, and no other row.
C11_FilteredRows ==
    IncrementalPath =>
        /\ stock_data \subseteq input
        /\ \A r \in input :
              /\ r[1] \in tickers_new \cup tickers_update => r \in stock_data
              /\ r[1] \in tickers_current => r \notin stock_data
        /\ TickersOf(input) \subseteq tickers_current => stock_data = {}

C11_Witness ==
    /\ IncrementalPath
    /\ tickers_current # {}
    /\ tickers_update # {}
    /\ stock_data # {}
    /\ stock_data # input

\* the newest stored date_time of a ticker
StoredLatest(t) == MaxOf(DatesOf(RowsIn(store), t))

Partition(r) == <<r[1], Month(r[2])>>

\* C13: an incremental run leaves the stored rows of the tickers it
\* classified missing or current as they were, and every stored partition
\* (ticker, year, month) with no row in the filtered dataset as well.
C13_UnwrittenRowsKept ==
    IncrementalPath =>
        \A r \in Rows :
            /\ r[1] \in tickers_missing \cup tickers_current => store[r] = store0[r]
            /\ Partition(r) \notin {Partition(q) : q \in stock_data} => store[r] = store0[r]
            /\ store[r] >= store0[r]

\* an incremental run has written next to stored rows of a missing ticker
\* and next to another stored partition of the ticker it wrote
C13_Witness ==
    /\ IncrementalPath
    /\ wrote
    /\ \E r \in Rows : r[1] \in tickers_missing /\ store[r] > 0
    /\ \E r \in Rows, q \in stock_data :
          r[1] = q[1] /\ Partition(r) # Partition(q) /\ store0[r] > 0

\* C14: a run whose watermark snapshot cannot be read has aborted with the
\* stock store, the watermarks and the run artifacts as they were when the
\* run started, and without having written.
C14_ReadFailureChangesNothing ==
    (run_id > 0 /\ pc = "failed" /\ err = "StoreRead") =>
        /\ store = store0
        /\ wm = wm0
        /\ etl_artifacts = etl0
        /\ ~wrote
        /\ api_artifacts = Put(EmptyReport, "LoadingData", "Successful")

\* the snapshot read failed on a run that had rows and watermarks to harm
C14_Witness ==
    /\ pc = "failed" /\ err = "StoreRead"
    /\ DOMAIN wm # {} /\ store # EmptyStore /\ etl_artifacts # <<>>
    /\ input # {}

\* C15: in every watermark record that holds both dates, oldest_date is
\* not later than latest_date.
C15_OldestNotAfterLatest ==
    \A t \in DOMAIN wm :
        (wm[t].oldest_date # NoDate /\ wm[t].latest_date # NoDate) =>
            wm[t].oldest_date <= wm[t].latest_date

\* C16: a run over an empty input folder fails at the load step, before the
\* watermark snapshot is read, and writes nothing to the stock store, the
\* watermarks or the run artifacts.
C16_EmptyInputFailsAtLoad ==
    (run_id > 0 /\ input = {}) =>
        /\ pc \in {"constructed", "failed"}
        /\ pc = "failed" => err = "EmptyInput"
        /\ mongo_ticker_dict = [t \in {} |-> NoDate]
        /\ store = store0 /\ wm = wm0 /\ etl_artifacts = etl0
        /\ ~wrote
        /\ api_artifacts = EmptyReport

\* the load step has failed on an empty folder, after earlier runs had
\* filled the stores
C16_Witness ==
    /\ input = {} /\ pc = "failed" /\ err = "EmptyInput"
    /\ DOMAIN wm # {} /\ store # EmptyStore /\ etl_artifacts # <<>>

\* C17: after a bootstrap run has completed without error the watermark
\* store holds one record for each distinct input ticker and no other, with
\* row_count the number of the ticker's stored rows, oldest_date the minimum
\* and latest_date the maximum date_time of those rows.
C17_BootstrapWatermarks ==
    (FirstPath /\ pc = "done") =>
        /\ DOMAIN wm = TickersOf(input)
        /\ \A t \in DOMAIN wm :
              /\ wm[t].row_count = SumCopies(store, t, MaxDate)
              /\ wm[t].row_count = Cardinality({r \in input : r[1] = t})
              /\ wm[t].oldest_date = MinOf(DatesOf(RowsIn(store), t))
              /\ wm[t].latest_date = MaxOf(DatesOf(RowsIn(store), t))

\* a bootstrap run has completed over two tickers whose rows lie in
\* different months
C17_Witness ==
    /\ FirstPath /\ pc = "done"
    /\ TickersOf(input) = Tickers
    /\ \E r \in input, q \in input : r[1] # q[1] /\ Month(r[2]) # Month(q[2])

\* the run-artifact request of the current run
LastRequest == etl_artifacts[Len(etl_artifacts)]

\* C18: a run emits one run-artifact request, tagged with its run id, when
\* its classification is made and none before or after, so the request
\* precedes every partitioned write; on the incremental path the request
\* carries the missing, new and updated sets and the skip_writing flag of
\* that classification, on the bootstrap path all distinct input tickers.
C18_OneRequestPerRun ==
    /\ SubSeq(etl_artifacts, 1, Len(etl0)) = etl0
    /\ Len(etl_artifacts) = Len(etl0) + (IF Classified THEN 1 ELSE 0)
    /\ (wrote \/ store # store0) => Classified
    /\ pc = "classified" => ~wrote /\ store = store0
    /\ Classified =>
          /\ LastRequest.run_id = run_id
          /\ \A i \in 1..Len(etl0) : etl_artifacts[i].run_id # run_id
    /\ FirstPath =>
          /\ LastRequest.tickers_new = TickersOf(input)
          /\ LastRequest.tickers_missing = {} /\ LastRequest.tickers_updated = {}
    /\ IncrementalPath =>
          /\ LastRequest.tickers_missing = DOMAIN mongo_ticker_dict \ TickersOf(input)
          /\ LastRequest.tickers_new = TickersOf(input) \ DOMAIN mongo_ticker_dict
          /\ LastRequest.tickers_updated =
                {t \in TickersOf(input) \cap DOMAIN mongo_ticker_dict :
                    InputLatest(t) > mongo_ticker_dict[t]}
          /\ LastRequest.skip_writing = skip_writing
          /\ LastRequest.skip_writing =
                (LastRequest.tickers_new \cup LastRequest.tickers_updated = {})

\* an incremental run has written after a request that names a missing and
\* a new ticker, and another incremental run one that names an updated one
C18_Witness ==
    /\ IncrementalPath
    /\ wrote
    /\ LastRequest.tickers_missing # {}
    /\ LastRequest.tickers_new # {}
    /\ Len(etl_artifacts) = 3
    /\ etl_artifacts[2].tickers_updated # {}

\* C19: after runs that all completed without error, over inputs in which
\* each (ticker, date_time) pair occurs once, the store holds at most one
\* row for each (ticker, date_time).
C19_NoDuplicateRows ==
    (clean /\ pc = "done") => \A r \in Rows : store[r] <= 1
====
